---------------------------- MODULE Spec2Model ----------------------------
(***************************************************************************)
(* A model of the orchestration core of kelson:                            *)
(*   - to_snake_case       (kelson/commands/make.py)                       *)
(*   - Container           (kelson/core/container.py)                      *)
(*   - train_model and TrainingDashboard (kelson/commands/train.py)        *)
(*   - BaseModel.set_tracker / log       (kelson/core/model.py)            *)
(*                                                                         *)
(* Strings that the code inspects character by character (identifiers and  *)
(* canonical keys) are sequences of one-character strings.                 *)
(***************************************************************************)
EXTENDS Integers, Sequences, FiniteSets, TLC

VARIABLES
    \* ---- to_snake_case, applied to an identifier and to its own result
    snake_pc,        \* "input" | "once" | "twice"
    snake_in,        \* the identifier given to to_snake_case
    snake_out,       \* to_snake_case(snake_in)
    snake_again,     \* to_snake_case(snake_out)
    \* ---- Container (class-level state of kelson.core.container.Container)
    _instances,      \* Container._instances : key -> instance
    _bindings,       \* Container._bindings  : key -> resolver
    invocations,     \* how often each resolver function has been called
    lastOp,          \* the last Container call and what it returned / raised
    forgotten,       \* keys forgotten and not bound again since
    \* ---- train_model
    pc,              \* position of train_model
    model_name,      \* the CLI argument
    modules,         \* what importlib finds under app/Models
    ctor_raises,     \* does model_class(**model_config) raise
    has_set_tracker, \* hasattr(model, "set_tracker")
    cur,             \* index (1..4) of the stage in progress, 0 before
    data,            \* the local variable `data`
    calls,           \* record of the unit's method calls, returns and raises
    metrics_history, \* TrainingDashboard.metrics_history
    sink_log,        \* every call the sink received, in order
    tracker,         \* BaseModel._tracker
    dashboard,       \* has TrainingDashboard been constructed
    console_out,     \* the error report printed on the console, if any
    exit_code,       \* process exit code, -1 while running
    \* ---- Config (class-level state of kelson.core.config.Config)
    _config,         \* Config._config
    cfg_pc,          \* "call" | "done": one Config.get call
    cfg_key,         \* the dotted key given to Config.get
    cfg_default,     \* the default given to Config.get
    cfg_result,      \* what Config.get returned
    \* ---- resolve (kelson.core.container.resolve)
    py_env,          \* what importing and constructing the named class does
    resolve_pc,      \* "call" | "done": one resolve call
    class_path,      \* the dotted path given to resolve
    resolve_result,  \* "returned" or the type of the exception that escaped
    \* ---- main (the CLI callback)
    boot_pc,         \* "start" | "booted"
    subcommand,      \* ctx.invoked_subcommand
    config_dir,      \* Path("config").exists()
    config_files,    \* config/*.yaml: file stem -> what yaml.safe_load gives
    loader_path,     \* the value the registered lambda closes over
    \* ---- make_model
    models_dir,      \* Path("app/Models").exists()
    model_files,     \* app/Models/<key>.py -> the class its template defines
    make_report      \* outcome of the last make:model command

snakeVars == <<snake_pc, snake_in, snake_out, snake_again>>
containerVars == <<_instances, _bindings, invocations, lastOp, forgotten>>
trainVars == <<pc, model_name, modules, ctor_raises, has_set_tracker, cur,
               data, calls, metrics_history, sink_log, tracker,
               dashboard, console_out, exit_code>>
configVars == <<_config, cfg_pc, cfg_key, cfg_default, cfg_result>>
resolveVars == <<py_env, resolve_pc, class_path, resolve_result>>
bootVars == <<boot_pc, subcommand, config_dir, config_files, loader_path>>
makeVars == <<models_dir, model_files, make_report>>
vars == <<snakeVars, containerVars, trainVars, configVars, resolveVars,
          bootVars, makeVars>>
notSnake == <<containerVars, trainVars, configVars, resolveVars, bootVars,
              makeVars>>
notContainer == <<snakeVars, trainVars, configVars, resolveVars, bootVars,
                  makeVars>>
notTrain == <<snakeVars, containerVars, configVars, resolveVars, bootVars,
              makeVars>>
notConfig == <<snakeVars, containerVars, trainVars, resolveVars, bootVars,
               makeVars>>
notBoot == <<snakeVars, trainVars, cfg_pc, cfg_key, cfg_default, cfg_result,
             resolve_pc, class_path, resolve_result, makeVars>>
notMake == <<snakeVars, containerVars, trainVars, configVars, resolveVars,
             bootVars>>
notResolve == <<snakeVars, containerVars, trainVars, configVars, bootVars,
                makeVars>>

-----------------------------------------------------------------------------
(* Bounds *)

MaxNameLen == 4        \* longest identifier enumerated exhaustively
MaxInvocations == 2    \* cap on the invocations counted per resolver
MaxLogs == 2           \* cap on self.log(...) calls a unit makes during fit

-----------------------------------------------------------------------------
(* Characters *)

UpperChars == <<"A","B","C","D","E","F","G","H","I","J","K","L","M",
                "N","O","P","Q","R","S","T","U","V","W","X","Y","Z">>
LowerChars == <<"a","b","c","d","e","f","g","h","i","j","k","l","m",
                "n","o","p","q","r","s","t","u","v","w","x","y","z">>
DigitChars == <<"0","1","2","3","4","5","6","7","8","9">>

Range(f) == {f[i] : i \in DOMAIN f}

\* regex class [A-Z]
IsUpper(c) == c \in Range(UpperChars)
\* regex class [a-z]
IsLower(c) == c \in Range(LowerChars)
\* regex class [a-z0-9]
IsLowerOrDigit(c) == c \in Range(LowerChars) \cup Range(DigitChars)

\* str.lower() on one ASCII character
LowerChar(c) ==
    IF IsUpper(c)
    THEN LowerChars[CHOOSE i \in DOMAIN UpperChars : UpperChars[i] = c]
    ELSE c

\* str.lower()
lower(s) == [i \in DOMAIN s |-> LowerChar(s[i])]

-----------------------------------------------------------------------------
(* to_snake_case: two re.sub passes, then lower() *)

\* end of the greedy [a-z]+ run that starts at position j
RECURSIVE LowerRunEnd(_, _)
LowerRunEnd(s, j) ==
    IF j + 1 <= Len(s) /\ IsLower(s[j + 1]) THEN LowerRunEnd(s, j + 1) ELSE j

\* does '(.)([A-Z][a-z]+)' match at position i
Match1(s, i) ==
    /\ i + 2 <= Len(s)
    /\ IsUpper(s[i + 1])
    /\ IsLower(s[i + 2])

\* re.sub('(.)([A-Z][a-z]+)', r'\1_\2', s), scanning from position i:
\* leftmost, non-overlapping matches, the rest copied unchanged
RECURSIVE sub1(_, _)
sub1(s, i) ==
    IF i > Len(s) THEN <<>>
    ELSE IF Match1(s, i)
         THEN LET j == LowerRunEnd(s, i + 2)
              IN  <<s[i], "_">> \o SubSeq(s, i + 1, j) \o sub1(s, j + 1)
         ELSE <<s[i]>> \o sub1(s, i + 1)

\* '([a-z0-9])([A-Z])' compiled with re.IGNORECASE
Match2_ignorecase(s, i) ==
    /\ i + 1 <= Len(s)
    /\ (IsLowerOrDigit(s[i]) \/ IsUpper(s[i]))
    /\ (IsUpper(s[i + 1]) \/ IsLower(s[i + 1]))

\* '([a-z])([A-Z])': the digit left out of the first class
Match2_nodigit(s, i) ==
    /\ i + 1 <= Len(s)
    /\ IsLower(s[i])
    /\ IsUpper(s[i + 1])

\* does '([a-z0-9])([A-Z])' match at position i
Match2(s, i) ==
    /\ i + 1 <= Len(s)
    /\ IsLowerOrDigit(s[i])
    /\ IsUpper(s[i + 1])

\* re.sub('([a-z0-9])([A-Z])', r'\1_\2', s), scanning from position i
RECURSIVE sub2(_, _)
sub2(s, i) ==
    IF i > Len(s) THEN <<>>
    ELSE IF Match2(s, i)
         THEN <<s[i], "_", s[i + 1]>> \o sub2(s, i + 2)
         ELSE <<s[i]>> \o sub2(s, i + 1)

to_snake_case(name) ==
    LET s1 == sub1(name, 1)
    IN  lower(sub2(s1, 1))

-----------------------------------------------------------------------------
(* Identifiers *)

MyClassifier == <<"M","y","C","l","a","s","s","i","f","i","e","r">>
my_classifier == <<"m","y","_","c","l","a","s","s","i","f","i","e","r">>
HTTPLoader == <<"H","T","T","P","L","o","a","d","e","r">>
http_loader == <<"h","t","t","p","_","l","o","a","d","e","r">>
already_snake == <<"a","l","r","e","a","d","y","_","s","n","a","k","e">>
IrisClassifier == <<"I","r","i","s","C","l","a","s","s","i","f","i","e","r">>
irisClassifier == <<"i","r","i","s","C","l","a","s","s","i","f","i","e","r">>
iris_classifier == <<"i","r","i","s","_","c","l","a","s","s","i","f","i","e","r">>

\* the identifiers spelled out in the documentation
ExampleNames == {MyClassifier, HTTPLoader, already_snake, IrisClassifier}

\* a lowercase letter, two capitals, a digit and the underscore
SnakeAlphabet == {"a", "A", "B", "1", "_"}

RECURSIVE StringsUpTo(_)
StringsUpTo(n) ==
    IF n = 0 THEN {<<>>}
    ELSE LET shorter == StringsUpTo(n - 1)
         IN  shorter \cup {Append(s, c) : s \in {t \in shorter : Len(t) = n - 1},
                                          c \in SnakeAlphabet}

SnakeInputs == StringsUpTo(MaxNameLen) \cup ExampleNames

NoString == <<"?">>    \* placeholder: not computed yet

InitSnake ==
    /\ snake_pc = "input"
    /\ snake_in \in SnakeInputs
    /\ snake_out = NoString
    /\ snake_again = NoString

\* snake_name = to_snake_case(name)
Canonicalize ==
    /\ snake_pc = "input"
    /\ snake_out' = to_snake_case(snake_in)
    /\ snake_pc' = "once"
    /\ UNCHANGED <<snake_in, snake_again>>

\* to_snake_case applied to a canonical key
Recanonicalize ==
    /\ snake_pc = "once"
    /\ snake_again' = to_snake_case(snake_out)
    /\ snake_pc' = "twice"
    /\ UNCHANGED <<snake_in, snake_out>>

-----------------------------------------------------------------------------
(* Config *)

\* {}
EmptyDict == [x \in {} |-> x]

\* configuration values: a mapping (dict) or anything else (a scalar)
\* a string is the sequence of its characters
Leaf(v) == [tag |-> "str", v |-> v, items |-> EmptyDict]
Dict(f) == [tag |-> "dict", v |-> <<>>, items |-> f]
None == [tag |-> "none", v |-> <<>>, items |-> EmptyDict]
EmptyMapping == Dict(EmptyDict)

\* isinstance(value, dict)
IsDict(value) == value.tag = "dict"

\* str.split("."), scanning from position i with the segment `seg` begun
RECURSIVE SplitFrom(_, _, _)
SplitFrom(s, i, seg) ==
    IF i > Len(s) THEN <<seg>>
    ELSE IF s[i] = "." THEN <<seg>> \o SplitFrom(s, i + 1, <<>>)
    ELSE SplitFrom(s, i + 1, Append(seg, s[i]))
split(s) == SplitFrom(s, 1, <<>>)

\* the loop of Config.get with `return None` in place of `return default`
RECURSIVE Walk_returns_none(_, _, _)
Walk_returns_none(value, keys, default) ==
    IF keys = <<>> THEN value
    ELSE IF IsDict(value) /\ Head(keys) \in DOMAIN value.items
         THEN Walk_returns_none(value.items[Head(keys)], Tail(keys), default)
         ELSE None

\* the loop of Config.get over the remaining keys
RECURSIVE Walk(_, _, _)
Walk(value, keys, default) ==
    IF keys = <<>> THEN value
    ELSE IF IsDict(value) /\ Head(keys) \in DOMAIN value.items
         THEN Walk(value.items[Head(keys)], Tail(keys), default)
         ELSE default

\* Config.get
Config_get(key, default) == Walk(_config, split(key), default)

K_ml == <<"m", "l">>
K_models == <<"m", "o", "d", "e", "l", "s">>
K_epochs == <<"e", "p", "o", "c", "h", "s">>
K_data == <<"d", "a", "t", "a">>
K_loader == <<"l", "o", "a", "d", "e", "r">>
Dot == <<".">>

\* f"ml.models.{model_name}"
ModelConfigKey(name) == K_ml \o Dot \o K_models \o Dot \o name
\* "data.loader"
LoaderKey == K_data \o Dot \o K_loader

\* one-letter keys and the separator
KeyAlphabet == {"a", "b", "."}
RECURSIVE KeysUpTo(_)
KeysUpTo(n) ==
    IF n = 0 THEN {<<>>}
    ELSE LET shorter == KeysUpTo(n - 1)
         IN  shorter \cup {Append(s, c) : s \in {t \in shorter : Len(t) = n - 1},
                                          c \in KeyAlphabet}

\* every mapping from some of the keys ks to values of V
Dicts(ks, V) == {Dict(f) : f \in UNION {[S -> V] : S \in SUBSET ks}}

SmallKeys == {<<"a">>, <<"b">>}
SmallValues == {Leaf(<<"v">>)} \cup Dicts(SmallKeys, {Leaf(<<"v">>)})
SmallConfigs == Dicts(SmallKeys, SmallValues)

\* configurations with and without an entry for the model
ModelConfigs ==
    { Dict(K_ml :> Dict(K_models :> Dict(IrisClassifier :>
                                           Dict(K_epochs :> Leaf(<<"v">>))))),
      Dict(K_ml :> Dict(K_models :> Dict(HTTPLoader :> EmptyMapping))),
      Dict(K_ml :> Dict(K_models :> Leaf(<<"v">>))),
      Dict(K_ml :> EmptyMapping) }

MaxKeyLen == 5         \* longest dotted key enumerated exhaustively

InitConfig ==
    /\ _config \in SmallConfigs \cup ModelConfigs
    /\ cfg_pc = "call"
    /\ cfg_key \in KeysUpTo(MaxKeyLen) \cup {ModelConfigKey(IrisClassifier)}
    /\ cfg_default \in {None, EmptyMapping}
    /\ cfg_result = None

IdleConfig ==
    /\ _config = EmptyMapping
    /\ cfg_pc = "call"
    /\ cfg_key = <<>>
    /\ cfg_default = None
    /\ cfg_result = None

\* a call of Config.get(cfg_key, cfg_default)
Get ==
    /\ cfg_pc = "call"
    /\ cfg_result' = Config_get(cfg_key, cfg_default)
    /\ cfg_pc' = "done"
    /\ UNCHANGED <<_config, cfg_key, cfg_default>>

-----------------------------------------------------------------------------
(* resolve *)

HttpLoader == <<"H","t","t","p","L","o","a","d","e","r">>
LocalDataLoaderPath ==
    <<"a","p","p",".","P","i","p","e","l","i","n","e","s",".",
      "L","o","c","a","l","D","a","t","a","L","o","a","d","e","r">>

\* what importlib.import_module(module_name) does, whether the module has
\* the attribute class_name, and what cls_obj() does
Env(import, has_class, ctor) ==
    [import |-> import, has_class |-> has_class, ctor |-> ctor]
Envs ==
    {Env(i, h, c) : i \in {"ok", "ModuleNotFoundError", "SyntaxError"},
                    h \in BOOLEAN,
                    c \in {"ok", "ValueError", "TypeError", "RuntimeError"}}

\* class_path.rsplit(".", 1)
rsplit1(s) ==
    LET dots == {i \in DOMAIN s : s[i] = "."} IN
    IF dots = {} THEN <<s>>
    ELSE LET d == CHOOSE i \in dots : \A j \in dots : j <= i
         IN  <<SubSeq(s, 1, d - 1), SubSeq(s, d + 1, Len(s))>>

\* the exception, if any, raised inside the try block of resolve
RaisedInResolve(path, env) ==
    LET parts == rsplit1(path) IN
    IF Len(parts) # 2 THEN "ValueError"            \* cannot unpack
    ELSE LET module_name == parts[1]
             class_name == parts[2]
         IN  IF module_name = <<>> THEN "ValueError"  \* Empty module name
             ELSE IF module_name[1] = "." THEN "TypeError"  \* relative import
             ELSE IF \E seg \in Range(split(module_name)) : seg = <<>>
                  THEN "ModuleNotFoundError"
             ELSE IF env.import # "ok" THEN env.import
             ELSE IF class_name = <<>> \/ ~env.has_class
                  THEN "AttributeError"
             ELSE env.ctor

\* except (ValueError, ImportError, AttributeError)
Caught(exc) ==
    exc \in {"ValueError", "ImportError", "ModuleNotFoundError",
             "AttributeError"}

\* resolve(class_path): "returned", or the type of the exception it raises
resolve(path, env) ==
    LET exc == RaisedInResolve(path, env) IN
    IF exc = "ok" THEN "returned"
    ELSE IF Caught(exc) THEN "ImportError"
    ELSE exc

InitResolve ==
    /\ py_env \in Envs
    /\ resolve_pc = "call"
    /\ class_path \in KeysUpTo(MaxKeyLen) \cup {LocalDataLoaderPath}
    /\ resolve_result = "none"

IdleResolve ==
    /\ py_env = Env("ok", TRUE, "ok")
    /\ resolve_pc = "call"
    /\ class_path = <<>>
    /\ resolve_result = "none"

\* a call of resolve(class_path)
Resolve ==
    /\ resolve_pc = "call"
    /\ resolve_result' = resolve(class_path, py_env)
    /\ resolve_pc' = "done"
    /\ UNCHANGED <<py_env, class_path>>

-----------------------------------------------------------------------------
(* Container *)

Keys == {"k1", "k2"}
InstanceNames == {"A", "B"}
Resolvers == {"f", "g"}
\* the factory main registers: lambda: resolve(loader_path)
LoaderLambda == "lambda: resolve(loader_path)"

\* what calling the resolver does: "returned", or the exception it raises
CallResolver(r) ==
    IF r = LoaderLambda
    THEN IF loader_path.tag = "str"
         THEN resolve(loader_path.v, py_env)
         ELSE "ImportError"     \* no rsplit: AttributeError, caught in resolve
    ELSE "returned"

\* objects are told apart by who made them and at which invocation
Obj(src, n) == [src |-> src, n |-> n]
NoObj == Obj("none", 0)
Instances == {Obj(a, 0) : a \in InstanceNames}

\* d[key] = v
Put(d, key, v) == [x \in DOMAIN d \cup {key} |-> IF x = key THEN v ELSE d[x]]
\* del d[key]
Del(d, key) == [x \in DOMAIN d \ {key} |-> d[x]]

Op(op, key, arg, kind, value) ==
    [op |-> op, key |-> key, arg |-> arg, kind |-> kind, value |-> value]

InitContainer ==
    /\ _instances = EmptyDict
    /\ _bindings = EmptyDict
    /\ invocations = [r \in Resolvers \cup {LoaderLambda} |-> 0]
    /\ lastOp = Op("none", "none", NoObj, "none", NoObj)
    /\ forgotten = {}

\* Container.bind with the singleton of the key dropped as well
bind_clobber(key, resolver) ==
    /\ _bindings' = Put(_bindings, key, resolver)
    /\ _instances' = Del(_instances, key)
    /\ forgotten' = forgotten \ {key}
    /\ lastOp' = Op("bind", key, Obj(resolver, 0), "returned", NoObj)
    /\ UNCHANGED invocations

\* Container.bind
bind(key, resolver) ==
    /\ _bindings' = Put(_bindings, key, resolver)
    /\ forgotten' = forgotten \ {key}
    /\ lastOp' = Op("bind", key, Obj(resolver, 0), "returned", NoObj)
    /\ UNCHANGED <<_instances, invocations>>

\* Container.singleton
singleton(key, instance) ==
    /\ _instances' = Put(_instances, key, instance)
    /\ forgotten' = forgotten \ {key}
    /\ lastOp' = Op("singleton", key, instance, "returned", NoObj)
    /\ UNCHANGED <<_bindings, invocations>>

\* the branch Container.make takes, the factory looked up first
MakeBranch_factory_first(key) ==
    IF key \in DOMAIN _bindings THEN "factory"
    ELSE IF key \in DOMAIN _instances THEN "instance"
    ELSE "missing"

\* the branch Container.make takes
MakeBranch(key) ==
    IF key \in DOMAIN _instances THEN "instance"
    ELSE IF key \in DOMAIN _bindings THEN "factory"
    ELSE "missing"

\* what make does with the object the factory returned: it keeps it
KeepResult_cached(key, obj) == Put(_instances, key, obj)

\* what make does with the object the factory returned: nothing
KeepResult(key, obj) == _instances

\* Container.make; a resolver that raises lets its exception through
make(key) ==
    LET branch == MakeBranch(key) IN
    /\ branch = "factory" => invocations[_bindings[key]] < MaxInvocations
    /\ CASE branch = "instance" ->
              /\ lastOp' = Op("make", key, NoObj, "returned", _instances[key])
              /\ UNCHANGED <<_instances, invocations>>
         [] branch = "factory" ->
              LET r == _bindings[key]
                  obj == Obj(r, invocations[r] + 1)
                  out == CallResolver(r)
              IN  /\ invocations' = [invocations EXCEPT ![r] = @ + 1]
                  /\ IF out = "returned"
                     THEN /\ _instances' = KeepResult(key, obj)
                          /\ lastOp' = Op("make", key, NoObj, "returned", obj)
                     ELSE /\ _instances' = _instances
                          /\ lastOp' = Op("make", key, NoObj, out, NoObj)
         [] branch = "missing" ->
              /\ lastOp' = Op("make", key, NoObj, "ValueError", NoObj)
              /\ UNCHANGED <<_instances, invocations>>
    /\ UNCHANGED <<_bindings, forgotten>>

\* Container.forget without the second `if`
forget_instances_only(key) ==
    /\ _instances' = IF key \in DOMAIN _instances THEN Del(_instances, key)
                     ELSE _instances
    /\ forgotten' = forgotten \cup {key}
    /\ lastOp' = Op("forget", key, NoObj, "returned", NoObj)
    /\ UNCHANGED <<_bindings, invocations>>

\* Container.forget
forget(key) ==
    /\ _instances' = IF key \in DOMAIN _instances THEN Del(_instances, key)
                     ELSE _instances
    /\ _bindings' = IF key \in DOMAIN _bindings THEN Del(_bindings, key)
                    ELSE _bindings
    /\ forgotten' = forgotten \cup {key}
    /\ lastOp' = Op("forget", key, NoObj, "returned", NoObj)
    /\ UNCHANGED invocations

-----------------------------------------------------------------------------
(* train_model *)

\* the four methods of a unit, in the order train_model calls them
StageMethods_build_first == <<"load_data", "build", "transform", "fit">>

StageMethods == <<"load_data", "transform", "build", "fit">>

\* the status texts with those of transform and build exchanged
StatusText_swapped(i) ==
    CASE i = 1 -> "Loading data..."
      [] i = 2 -> "Building model architecture..."
      [] i = 3 -> "Transforming data..."
      [] i = 4 -> "Training {model_name}..."

\* the argument of dashboard.set_status before stage i
StatusText(i) ==
    CASE i = 1 -> "Loading data..."
      [] i = 2 -> "Transforming data..."
      [] i = 3 -> "Building model architecture..."
      [] i = 4 -> "Training {model_name}..."
CompletedText == "[green]Training Completed[/green]"

\* what the sink receives
StatusEv(text) == [call |-> "set_status", text |-> text, epoch |-> 0]
UpdateEv(n) == [call |-> "update", text |-> "", epoch |-> n]

\* values the unit's methods return
EmptyVal == "{}"
MetricsVal == "{epoch: 1, loss: 0.1}"
Values == {EmptyVal, MetricsVal, "rows"}
NoVal == "-"

CallEv(ev, stage, val) == [ev |-> ev, stage |-> stage, val |-> val]

\* what is printed on the console when the command ends
Report(kind, stage, file, class) ==
    [kind |-> kind, stage |-> stage, file |-> file, class |-> class]
NoReport == Report("none", "", <<>>, <<>>)

ModelNames == {IrisClassifier, irisClassifier, HTTPLoader}
ModuleKeys == {to_snake_case(n) : n \in ModelNames}

\* app/Models/<key>.py: absent, raising when imported, or defining classes
Missing == [load |-> "missing", attrs |-> {}]
ModuleStates ==
    {Missing}
    \cup {[load |-> l, attrs |-> {}] :
              l \in {"ImportError", "AttributeError", "SyntaxError"}}
    \cup {[load |-> "ok", attrs |-> a] :
              a \in {{}, {IrisClassifier}, {HTTPLoader},
                     {IrisClassifier, irisClassifier}}}

InitTrain ==
    /\ pc = "start"
    /\ model_name \in ModelNames
    /\ modules \in [ModuleKeys -> ModuleStates]
    /\ ctor_raises \in BOOLEAN
    /\ has_set_tracker \in BOOLEAN
    /\ cur = 0
    /\ data = NoVal
    /\ calls = <<>>
    /\ metrics_history = <<>>
    /\ sink_log = <<>>
    /\ tracker = "None"
    /\ dashboard = FALSE
    /\ console_out = NoReport
    /\ exit_code = -1

\* f"app/Models/{snake_name}"
ExpectedFile(name) == <<"app", "Models", to_snake_case(name)>>

\* the try block of lines 101-103 with `except Exception`
LocateOutcome_catch_all(name) ==
    LET m == modules[to_snake_case(name)] IN
    IF m.load = "ok" /\ name \in m.attrs THEN "found" ELSE "not_found"

\* importlib.import_module(module_path) and getattr(module, model_name)
\* under `except (ImportError, AttributeError)`
LocateOutcome(name) ==
    LET m == modules[to_snake_case(name)] IN
    CASE m.load = "missing" -> "not_found"         \* ModuleNotFoundError
      [] m.load = "ImportError" -> "not_found"
      [] m.load = "AttributeError" -> "not_found"
      [] m.load = "SyntaxError" -> "uncaught"      \* not in the except clause
      [] m.load = "ok" -> IF name \in m.attrs THEN "found" ELSE "not_found"

\* lines 98-109
Locate ==
    /\ pc = "start"
    /\ LET o == LocateOutcome(model_name) IN
       CASE o = "found" ->
              /\ pc' = "located"
              /\ UNCHANGED <<console_out, exit_code>>
         [] o = "not_found" ->
              /\ console_out' = Report("ModelNotFound", "",
                                       ExpectedFile(model_name), model_name)
              /\ exit_code' = 1
              /\ pc' = "exit"
         [] o = "uncaught" ->
              /\ console_out' = Report("Traceback", "", <<>>, <<>>)
              /\ exit_code' = 1
              /\ pc' = "exit"
    /\ UNCHANGED <<model_name, modules, ctor_raises, has_set_tracker, cur,
                   data, calls, metrics_history, sink_log, tracker, dashboard>>

\* lines 112-119 without the `raise typer.Exit(code=1)` of line 119
Instantiate_continues ==
    /\ pc = "located"
    /\ IF ctor_raises
       THEN /\ console_out' = Report("InstantiateError", "", <<>>, model_name)
            /\ exit_code' = exit_code
            /\ pc' = "instantiated"
       ELSE /\ pc' = "instantiated"
            /\ UNCHANGED <<console_out, exit_code>>
    /\ UNCHANGED <<model_name, modules, ctor_raises, has_set_tracker, cur,
                   data, calls, metrics_history, sink_log, tracker, dashboard>>

\* lines 112-119
Instantiate ==
    /\ pc = "located"
    /\ IF ctor_raises
       THEN /\ console_out' = Report("InstantiateError", "", <<>>, model_name)
            /\ exit_code' = 1
            /\ pc' = "exit"
       ELSE /\ pc' = "instantiated"
            /\ UNCHANGED <<console_out, exit_code>>
    /\ UNCHANGED <<model_name, modules, ctor_raises, has_set_tracker, cur,
                   data, calls, metrics_history, sink_log, tracker, dashboard>>

\* lines 122-129: the dashboard is built, handed to the unit, Live is entered
InitDashboard ==
    /\ pc = "instantiated"
    /\ dashboard' = TRUE
    /\ tracker' = IF has_set_tracker THEN "dashboard" ELSE tracker
    /\ pc' = "ready"
    /\ UNCHANGED <<model_name, modules, ctor_raises, has_set_tracker, cur,
                   data, calls, metrics_history, sink_log, console_out,
                   exit_code>>

\* dashboard.set_status(...) ahead of the next stage
Notify ==
    /\ pc = "ready"
    /\ cur < 4
    /\ cur' = cur + 1
    /\ sink_log' = Append(sink_log, StatusEv(StatusText(cur + 1)))
    /\ pc' = "notified"
    /\ UNCHANGED <<model_name, modules, ctor_raises, has_set_tracker, data,
                   calls, metrics_history, tracker, dashboard, console_out,
                   exit_code>>

\* the argument stage i is called with
StageArg(i) == IF StageMethods[i] \in {"transform", "fit"} THEN data ELSE NoVal

\* control enters the unit's method
Invoke ==
    /\ pc = "notified"
    /\ calls' = Append(calls, CallEv("call", StageMethods[cur], StageArg(cur)))
    /\ pc' = "running"
    /\ UNCHANGED <<model_name, modules, ctor_raises, has_set_tracker, cur,
                   data, metrics_history, sink_log, tracker, dashboard,
                   console_out, exit_code>>

\* TrainingDashboard.update with metrics_history.insert(0, metrics)
Log_prepend ==
    /\ pc = "running"
    /\ tracker = "dashboard"
    /\ Len(metrics_history) < MaxLogs
    /\ LET m == Len(metrics_history) + 1 IN
       /\ metrics_history' = <<m>> \o metrics_history
       /\ sink_log' = Append(sink_log, UpdateEv(m))
    /\ UNCHANGED <<pc, model_name, modules, ctor_raises, has_set_tracker, cur,
                   data, calls, tracker, dashboard, console_out, exit_code>>

\* BaseModel.log called by the running method; TrainingDashboard.update
Log ==
    /\ pc = "running"
    /\ tracker = "dashboard"
    /\ Len(metrics_history) < MaxLogs
    /\ LET m == Len(metrics_history) + 1 IN
       /\ metrics_history' = Append(metrics_history, m)
       /\ sink_log' = Append(sink_log, UpdateEv(m))
    /\ UNCHANGED <<pc, model_name, modules, ctor_raises, has_set_tracker, cur,
                   data, calls, tracker, dashboard, console_out, exit_code>>

\* `data = model.build()` at line 150: what build returns goes on to fit
StageReturn_keeps_build(v) ==
    /\ pc = "running"
    /\ calls' = Append(calls, CallEv("return", StageMethods[cur], v))
    /\ data' = IF StageMethods[cur] \in {"load_data", "transform", "build"}
               THEN v ELSE data
    /\ pc' = IF cur < 4 THEN "ready" ELSE "fit_returned"
    /\ UNCHANGED <<model_name, modules, ctor_raises, has_set_tracker, cur,
                   metrics_history, sink_log, tracker, dashboard, console_out,
                   exit_code>>

\* the method returns v: `data = ...` for load_data and transform only
StageReturn(v) ==
    /\ pc = "running"
    /\ calls' = Append(calls, CallEv("return", StageMethods[cur], v))
    /\ data' = IF StageMethods[cur] \in {"load_data", "transform"}
               THEN v ELSE data
    /\ pc' = IF cur < 4 THEN "ready" ELSE "fit_returned"
    /\ UNCHANGED <<model_name, modules, ctor_raises, has_set_tracker, cur,
                   metrics_history, sink_log, tracker, dashboard, console_out,
                   exit_code>>

\* `raise typer.Exit()` without a code: the command exits with 0
StageRaise_exit0 ==
    /\ pc = "running"
    /\ calls' = Append(calls, CallEv("raise", StageMethods[cur], NoVal))
    /\ console_out' = Report("StageError", StageMethods[cur], <<>>, <<>>)
    /\ exit_code' = 0
    /\ pc' = "exit"
    /\ UNCHANGED <<model_name, modules, ctor_raises, has_set_tracker, cur,
                   data, metrics_history, sink_log, tracker, dashboard>>

\* the completion status set in a `finally` of the fit block
StageRaise_completes ==
    /\ pc = "running"
    /\ calls' = Append(calls, CallEv("raise", StageMethods[cur], NoVal))
    /\ console_out' = Report("StageError", StageMethods[cur], <<>>, <<>>)
    /\ sink_log' = IF cur = 4
                   THEN Append(sink_log,
                               StatusEv("[green]Training Completed[/green]"))
                   ELSE sink_log
    /\ exit_code' = 1
    /\ pc' = "exit"
    /\ UNCHANGED <<model_name, modules, ctor_raises, has_set_tracker, cur,
                   data, metrics_history, tracker, dashboard>>

\* an except clause that reports the error and lets the function go on
StageRaise_swallow ==
    /\ pc = "running"
    /\ calls' = Append(calls, CallEv("raise", StageMethods[cur], NoVal))
    /\ console_out' = Report("StageError", StageMethods[cur], <<>>, <<>>)
    /\ IF cur < 4
       THEN pc' = "ready" /\ UNCHANGED exit_code
       ELSE pc' = "exit" /\ exit_code' = 1
    /\ UNCHANGED <<model_name, modules, ctor_raises, has_set_tracker, cur,
                   data, metrics_history, sink_log, tracker, dashboard>>

\* the method raises an exception derived from Exception: the except clause
\* prints "Error during <method>" and raises typer.Exit(code=1)
StageRaise ==
    /\ pc = "running"
    /\ calls' = Append(calls, CallEv("raise", StageMethods[cur], NoVal))
    /\ console_out' = Report("StageError", StageMethods[cur], <<>>, <<>>)
    /\ exit_code' = 1
    /\ pc' = "exit"
    /\ UNCHANGED <<model_name, modules, ctor_raises, has_set_tracker, cur,
                   data, metrics_history, sink_log, tracker, dashboard>>

\* line 159 left out
Complete_silent ==
    /\ pc = "fit_returned"
    /\ pc' = "completed"
    /\ UNCHANGED <<model_name, modules, ctor_raises, has_set_tracker, cur,
                   data, calls, metrics_history, sink_log, tracker, dashboard,
                   console_out, exit_code>>

\* line 159: dashboard.set_status("[green]Training Completed[/green]")
Complete ==
    /\ pc = "fit_returned"
    /\ sink_log' = Append(sink_log, StatusEv(CompletedText))
    /\ pc' = "completed"
    /\ UNCHANGED <<model_name, modules, ctor_raises, has_set_tracker, cur,
                   data, calls, metrics_history, tracker, dashboard,
                   console_out, exit_code>>

\* lines 171-174: Live is left, the summary printed, the command returns
Finish ==
    /\ pc = "completed"
    /\ console_out' = Report("Success", "", <<>>, model_name)
    /\ exit_code' = 0
    /\ pc' = "exit"
    /\ UNCHANGED <<model_name, modules, ctor_raises, has_set_tracker, cur,
                   data, calls, metrics_history, sink_log, tracker, dashboard>>

-----------------------------------------------------------------------------
(* main and make_model: before their first use *)

IdleBoot ==
    /\ boot_pc = "start"
    /\ subcommand = "train"
    /\ config_dir = FALSE
    /\ config_files = EmptyDict
    /\ loader_path = None

IdleMake ==
    /\ models_dir = TRUE
    /\ model_files = EmptyDict
    /\ make_report = [name |-> <<>>, kind |-> "none", exit |-> -1]

-----------------------------------------------------------------------------
(* make_model *)

MakeNames == {HTTPLoader, HttpLoader, IrisClassifier, irisClassifier,
              MyClassifier, already_snake}

MakeReport(name, kind, exit) == [name |-> name, kind |-> kind, exit |-> exit]

\* a project as `new` leaves it, or a directory that is not a project
InitMake ==
    /\ models_dir \in BOOLEAN
    /\ model_files = EmptyDict
    /\ make_report = MakeReport(<<>>, "none", -1)

\* make_model without the check of lines 24-26
make_model_overwrite(name) ==
    IF ~models_dir
    THEN /\ make_report' = MakeReport(name, "no_project", 1)
         /\ UNCHANGED <<models_dir, model_files>>
    ELSE LET snake_name == to_snake_case(name) IN
         /\ model_files' = Put(model_files, snake_name, name)
         /\ make_report' = MakeReport(name, "created", 0)
         /\ UNCHANGED models_dir

\* make_model
make_model(name) ==
    IF ~models_dir
    THEN /\ make_report' = MakeReport(name, "no_project", 1)
         /\ UNCHANGED <<models_dir, model_files>>
    ELSE LET snake_name == to_snake_case(name) IN
         IF snake_name \in DOMAIN model_files
         THEN /\ make_report' = MakeReport(name, "exists", 1)
              /\ UNCHANGED <<models_dir, model_files>>
         ELSE /\ model_files' = Put(model_files, snake_name, name)
              /\ make_report' = MakeReport(name, "created", 0)
              /\ UNCHANGED models_dir

IdleRest == IdleResolve /\ IdleBoot /\ IdleMake

-----------------------------------------------------------------------------
(* main: the CLI callback *)

K_app == <<"a", "p", "p">>
K_default_loader ==
    <<"d","e","f","a","u","l","t","_","l","o","a","d","e","r">>
K_local == <<"l", "o", "c", "a", "l">>

\* a file yaml.safe_load raises on
Invalid == [tag |-> "invalid", v |-> <<>>, items |-> EmptyDict]

\* bool(value)
Truthy(value) ==
    CASE value.tag = "dict" -> value.items # EmptyDict
      [] value.tag = "str" -> value.v # <<>>
      [] value.tag = "none" -> FALSE
      [] value.tag = "invalid" -> FALSE

\* the contents of config/: file stem -> parsed content
BootConfigs ==
    { EmptyDict,
      K_data :> Dict(K_loader :> Leaf(LocalDataLoaderPath)),
      K_data :> Dict(K_loader :> Leaf(<<"a", "B">>)),
      K_data :> Dict(K_loader :> Leaf(<<>>)),
      K_data :> Dict(K_loader :> None),
      K_data :> Dict(K_loader :> Dict(K_app :> Leaf(K_local))),
      K_data :> Leaf(K_local),
      K_data :> None,
      K_data :> Invalid,
      K_app :> Dict(K_data :> Dict(K_default_loader :> Leaf(K_local))) }

Subcommands == {"new", "make:model", "train"}

InitBoot ==
    /\ boot_pc = "start"
    /\ subcommand \in Subcommands
    /\ config_dir \in BOOLEAN
    /\ config_files \in BootConfigs
    /\ ~config_dir => config_files = EmptyDict
    /\ loader_path = None
    /\ py_env \in Envs

\* Config.load: every file whose content parses and is truthy is stored
\* under its stem
Config_load(files) ==
    LET stored == {k \in DOMAIN files :
                      files[k].tag # "invalid" /\ Truthy(files[k])}
    IN  Dict([k \in DOMAIN _config.items \cup stored |->
                 IF k \in stored THEN files[k] ELSE _config.items[k]])

\* `if loader_path is not None:`
ShouldBind_not_none(value) == value.tag # "none"

\* `if loader_path:`
ShouldBind(value) == Truthy(value)

\* main
Bootstrap ==
    /\ boot_pc = "start"
    /\ boot_pc' = "booted"
    /\ IF subcommand # "new" /\ config_dir
       THEN LET loaded == Config_load(config_files)
                value == Walk(loaded, split(LoaderKey), None)
            IN  /\ _config' = loaded
                /\ IF ShouldBind(value)
                   THEN /\ loader_path' = value
                        /\ bind("data_loader", LoaderLambda)
                   ELSE UNCHANGED <<loader_path, containerVars>>
       ELSE UNCHANGED <<_config, loader_path, containerVars>>
    /\ UNCHANGED <<subcommand, config_dir, config_files, py_env>>

\* Container.make("data_loader") called by the command that runs next
MakeLoader ==
    /\ boot_pc = "booted"
    /\ make("data_loader")
    /\ UNCHANGED <<bootVars, _config, py_env>>

-----------------------------------------------------------------------------
(* Specifications *)

\* a component that is not exercised stays as it is before its first use
IdleSnake ==
    /\ snake_pc = "input"
    /\ snake_in = <<>>
    /\ snake_out = NoString
    /\ snake_again = NoString

IdleTrain ==
    /\ pc = "start"
    /\ model_name = IrisClassifier
    /\ modules = [k \in ModuleKeys |-> Missing]
    /\ ctor_raises = FALSE
    /\ has_set_tracker = TRUE
    /\ cur = 0
    /\ data = NoVal
    /\ calls = <<>>
    /\ metrics_history = <<>>
    /\ sink_log = <<>>
    /\ tracker = "None"
    /\ dashboard = FALSE
    /\ console_out = NoReport
    /\ exit_code = -1

\* to_snake_case on its own
NextSnake ==
    \/ Canonicalize /\ UNCHANGED notSnake
    \/ Recanonicalize /\ UNCHANGED notSnake
InitSnakeOnly == InitSnake /\ InitContainer /\ IdleTrain /\ IdleConfig /\ IdleRest
SpecSnake == InitSnakeOnly /\ [][NextSnake]_vars

\* the Container on its own
NextContainer ==
    \/ \E k \in Keys, r \in Resolvers :
          bind(k, r) /\ UNCHANGED notContainer
    \/ \E k \in Keys, i \in Instances :
          singleton(k, i) /\ UNCHANGED notContainer
    \/ \E k \in Keys : make(k) /\ UNCHANGED notContainer
    \/ \E k \in Keys : forget(k) /\ UNCHANGED notContainer
InitContainerOnly == IdleSnake /\ InitContainer /\ IdleTrain /\ IdleConfig /\ IdleRest
SpecContainer == InitContainerOnly /\ [][NextContainer]_vars

\* Config.get on its own
NextConfig ==
    \/ Get /\ UNCHANGED notConfig
InitConfigOnly == IdleSnake /\ InitContainer /\ IdleTrain /\ InitConfig /\ IdleRest
SpecConfig == InitConfigOnly /\ [][NextConfig]_vars

\* the make:model command, run any number of times in one directory
NextMake ==
    \/ \E n \in MakeNames : make_model(n) /\ UNCHANGED notMake
InitMakeOnly ==
    /\ IdleSnake /\ InitContainer /\ IdleTrain /\ IdleConfig
    /\ IdleResolve /\ IdleBoot /\ InitMake
SpecMake == InitMakeOnly /\ [][NextMake]_vars

\* the CLI callback, then calls of make("data_loader")
NextBoot ==
    \/ Bootstrap /\ UNCHANGED notBoot
    \/ MakeLoader /\ UNCHANGED notBoot
InitBootOnly ==
    /\ IdleSnake /\ InitContainer /\ IdleTrain /\ IdleConfig
    /\ resolve_pc = "call" /\ class_path = <<>> /\ resolve_result = "none"
    /\ InitBoot /\ IdleMake
SpecBoot == InitBootOnly /\ [][NextBoot]_vars

\* resolve on its own
NextResolve ==
    \/ Resolve /\ UNCHANGED notResolve
InitResolveOnly ==
    /\ IdleSnake /\ InitContainer /\ IdleTrain /\ IdleConfig
    /\ InitResolve /\ IdleBoot /\ IdleMake
SpecResolve == InitResolveOnly /\ [][NextResolve]_vars

\* one invocation of the train command
NextTrain ==
    \/ Locate /\ UNCHANGED notTrain
    \/ Instantiate /\ UNCHANGED notTrain
    \/ InitDashboard /\ UNCHANGED notTrain
    \/ Notify /\ UNCHANGED notTrain
    \/ Invoke /\ UNCHANGED notTrain
    \/ Log /\ UNCHANGED notTrain
    \/ \E v \in Values : StageReturn(v) /\ UNCHANGED notTrain
    \/ StageRaise /\ UNCHANGED notTrain
    \/ Complete /\ UNCHANGED notTrain
    \/ Finish /\ UNCHANGED notTrain
InitTrainOnly == IdleSnake /\ InitContainer /\ InitTrain /\ IdleConfig /\ IdleRest
SpecTrain == InitTrainOnly /\ [][NextTrain]_vars

\* the train command while every stage call returns or raises: the function
\* is straight-line code, so a step that can be taken is taken
InitTrainRun ==
    /\ IdleSnake
    /\ InitContainer
    /\ IdleConfig
    /\ IdleRest
    /\ InitTrain
    /\ model_name = IrisClassifier
    /\ modules = [k \in ModuleKeys |->
                     IF k = iris_classifier
                     THEN [load |-> "ok", attrs |-> {IrisClassifier}]
                     ELSE Missing]
SpecTrainFair == InitTrainRun /\ [][NextTrain]_vars /\ WF_vars(NextTrain)

-----------------------------------------------------------------------------
(* Properties of train_model *)

\* the unit's method calls, returns and raises without their values
Trace == [i \in DOMAIN calls |-> <<calls[i].ev, calls[i].stage>>]
NoRaise == \A i \in DOMAIN calls : calls[i].ev # "raise"
FullTrace ==
    << <<"call", "load_data">>, <<"return", "load_data">>,
       <<"call", "transform">>, <<"return", "transform">>,
       <<"call", "build">>,     <<"return", "build">>,
       <<"call", "fit">>,       <<"return", "fit">> >>
IsPrefix(a, b) == Len(a) <= Len(b) /\ a = SubSeq(b, 1, Len(a))
StageIndex(m) ==
    CASE m = "load_data" -> 1 [] m = "transform" -> 2
      [] m = "build" -> 3 [] m = "fit" -> 4

\* C1: in a run in which no stage raises, load_data, transform, build and fit
\* are each called exactly once, in that order, and no method is entered
\* before the one before it has returned.
C1_StagesOnceInOrder ==
    /\ (pc = "exit" /\ dashboard /\ NoRaise) => Trace = FullTrace
    /\ NoRaise => IsPrefix(Trace, FullTrace)
    /\ \A i \in DOMAIN calls :
          (calls[i].ev = "call" /\ i > 1) => calls[i - 1].ev = "return"

C1_Witness ==
    pc = "exit" /\ exit_code = 0 /\ Len(calls) = 8 /\ calls[8].stage = "fit"

\* C2: when the method of a stage raises, the run ends with an error that
\* names exactly that stage (load_data: Loading, transform: Transforming,
\* build: Building, fit: Fitting), the stage is not called again and no method
\* of a later stage is ever called.
C2_FailureAttribution ==
    \A i \in DOMAIN calls :
        calls[i].ev = "raise" =>
            /\ i = Len(calls)
            /\ pc = "exit"
            /\ exit_code = 1
            /\ console_out.kind = "StageError"
            /\ console_out.stage = calls[i].stage
            /\ Cardinality({j \in DOMAIN calls :
                              /\ calls[j].ev = "call"
                              /\ calls[j].stage = calls[i].stage}) = 1
            /\ \A j \in DOMAIN calls :
                  StageIndex(calls[j].stage) <= StageIndex(calls[i].stage)

C2_Witness ==
    /\ pc = "exit"
    /\ calls # <<>>
    /\ calls[Len(calls)] = CallEv("raise", "transform", NoVal)
    /\ console_out.stage = "transform"

\* the identifier has no loadable module under app/Models defining it
LocateMiss ==
    LET m == modules[to_snake_case(model_name)] IN
    m.load # "ok" \/ model_name \notin m.attrs

\* C9: locating an identifier whose module app/Models/<CanonicalKey> does not
\* exist or fails to load, or does not define the identifier, is reported as
\* model-not-found with the expected path, and the run ends without building
\* the unit or calling a stage.
C9_LocateMissReported ==
    (pc # "start" /\ LocateMiss) =>
        /\ pc = "exit"
        /\ console_out.kind = "ModelNotFound"
        /\ console_out.file = <<"app", "Models", to_snake_case(model_name)>>
        /\ exit_code = 1
        /\ ~dashboard
        /\ calls = <<>>

\* the run of a unit whose methods return {}, {}, {} and the metrics mapping
\* and do nothing else
StubRun ==
    /\ model_name = IrisClassifier
    /\ to_snake_case(model_name) = iris_classifier
    /\ pc = "exit"
    /\ Len(calls) = 8
    /\ calls[2] = CallEv("return", "load_data", EmptyVal)
    /\ calls[4] = CallEv("return", "transform", EmptyVal)
    /\ calls[6] = CallEv("return", "build", EmptyVal)
    /\ calls[8] = CallEv("return", "fit", MetricsVal)
    /\ metrics_history = <<>>

StatusEvents == SelectSeq(sink_log, LAMBDA e : e.call = "set_status")
UpdateEvents == SelectSeq(sink_log, LAMBDA e : e.call = "update")
StageStatusEvents ==
    SelectSeq(sink_log,
              LAMBDA e : e.call = "set_status" /\ e.text # CompletedText)

\* C10 as stated: the stub run ends Completed with exit code 0 and exactly 5
\* recorded events, 4 lifecycle events and 1 metric emission.
C10_FiveEventsOneMetric ==
    StubRun =>
        /\ console_out.kind = "Success"
        /\ exit_code = 0
        /\ Len(sink_log) = 5
        /\ Len(StatusEvents) = 4
        /\ Len(UpdateEvents) = 1

\* C10 amended: the stub run ends Completed with exit code 0 and the sink has
\* received exactly 5 events, all status notifications (one per stage and the
\* completion), and no metric emission: what fit returns is not emitted.
C10_FiveStatusEvents ==
    StubRun =>
        /\ console_out.kind = "Success"
        /\ exit_code = 0
        /\ Len(sink_log) = 5
        /\ Len(StageStatusEvents) = 4
        /\ sink_log[5] = StatusEv(CompletedText)
        /\ Len(UpdateEvents) = 0

C10_Witness == StubRun /\ exit_code = 0 /\ Len(sink_log) = 5

-----------------------------------------------------------------------------
(* Properties of the Container *)

IsStep(op, key) == lastOp'.op = op /\ lastOp'.key = key

\* C3: when a singleton is bound to k, make(k) returns that singleton and
\* calls no factory, in whichever order singleton and bind were called.
C3_SingletonPrecedence ==
    [][\A k \in Keys :
          (IsStep("make", k) /\ k \in DOMAIN _instances) =>
              /\ lastOp'.kind = "returned"
              /\ lastOp'.value = _instances[k]
              /\ invocations' = invocations]_vars

C3_Witness ==
    /\ lastOp.op = "make"
    /\ lastOp.key \in DOMAIN _instances \cap DOMAIN _bindings
    /\ lastOp.value = _instances[lastOp.key]
    /\ lastOp.value \in Instances

\* C4: after forget(k), and with no bind or singleton for k since, make(k)
\* fails with the not-found error whatever was bound to k before; forget(k)
\* removes both entries of k, touches no other key, raises nothing, and
\* changes nothing when k is absent.
C4_ForgetThenMakeFails ==
    /\ [](lastOp.op = "make" /\ lastOp.key \in forgotten
             => lastOp.kind = "ValueError")
    /\ [][\A k \in Keys :
            IsStep("forget", k) =>
                /\ lastOp'.kind = "returned"
                /\ k \notin DOMAIN _instances'
                /\ k \notin DOMAIN _bindings'
                /\ _instances' = Del(_instances, k)
                /\ _bindings' = Del(_bindings, k)
                /\ (k \notin DOMAIN _instances \cup DOMAIN _bindings
                       => /\ _instances' = _instances
                          /\ _bindings' = _bindings)]_vars

C4_Witness ==
    /\ lastOp.op = "make"
    /\ lastOp.key \in forgotten
    /\ lastOp.kind = "ValueError"
    /\ \E r \in Resolvers : invocations[r] > 0

\* C5: when k has a factory and no singleton, each make(k) calls the resolver
\* exactly once and returns the result of that call; nothing is cached, the
\* bindings stay as they are, and resolvers are called by nothing else.
C5_FactoryFreshness ==
    [][/\ \A k \in Keys :
            (/\ IsStep("make", k)
             /\ k \notin DOMAIN _instances
             /\ k \in DOMAIN _bindings) =>
                LET r == _bindings[k] IN
                /\ invocations' = [invocations EXCEPT ![r] = @ + 1]
                /\ lastOp'.kind = "returned"
                /\ lastOp'.value = Obj(r, invocations'[r])
                /\ _instances' = _instances
                /\ _bindings' = _bindings
       /\ invocations' # invocations =>
            \E k \in Keys :
                /\ IsStep("make", k)
                /\ k \notin DOMAIN _instances
                /\ k \in DOMAIN _bindings]_vars

C5_Witness ==
    /\ lastOp.op = "make"
    /\ lastOp.kind = "returned"
    /\ lastOp.key \notin DOMAIN _instances
    /\ lastOp.value.n = 2
    /\ invocations[lastOp.value.src] = 2

\* d and e agree on every key but k
SameBut(d, e, k) ==
    /\ DOMAIN d \ {k} = DOMAIN e \ {k}
    /\ \A x \in DOMAIN d \ {k} : d[x] = e[x]

\* C6: bind(k, r) replaces the factory of k and nothing else; singleton(k, i)
\* replaces the singleton of k and nothing else.
C6_BindSingletonFrame ==
    [][\A k \in Keys :
          /\ IsStep("bind", k) =>
                /\ k \in DOMAIN _bindings'
                /\ _bindings'[k] = lastOp'.arg.src
                /\ SameBut(_bindings, _bindings', k)
                /\ _instances' = _instances
          /\ IsStep("singleton", k) =>
                /\ k \in DOMAIN _instances'
                /\ _instances'[k] = lastOp'.arg
                /\ SameBut(_instances, _instances', k)
                /\ _bindings' = _bindings]_vars

C6_Witness ==
    /\ lastOp.op = "bind"
    /\ lastOp.key \in DOMAIN _instances
    /\ \E k \in Keys \ {lastOp.key} : k \in DOMAIN _bindings

-----------------------------------------------------------------------------
(* Properties of to_snake_case *)

\* C7: to_snake_case applied to its own result returns that result, also for
\* identifiers that contain underscores.
C7_Idempotent == snake_pc = "twice" => snake_again = snake_out

C7_Witness ==
    /\ snake_pc = "twice"
    /\ snake_again = snake_out
    /\ \E i, j \in DOMAIN snake_in : snake_in[i] = "_" /\ IsUpper(snake_in[j])
    /\ snake_out # snake_in

\* position i is followed by a lower-or-digit -> upper boundary or by an
\* acronym -> Titlecase boundary
CaseBoundary(s, i) ==
    /\ i + 1 <= Len(s)
    /\ \/ IsLowerOrDigit(s[i]) /\ IsUpper(s[i + 1])
       \/ /\ IsUpper(s[i]) /\ IsUpper(s[i + 1])
          /\ i + 2 <= Len(s) /\ IsLower(s[i + 2])

\* an underscore directly before a capital that a lowercase letter follows
UnderscoreBoundary(s, i) ==
    /\ i + 2 <= Len(s)
    /\ s[i] = "_" /\ IsUpper(s[i + 1]) /\ IsLower(s[i + 2])

\* s with an underscore put in at every boundary from position i on
RECURSIVE SplitAt(_, _, _)
SplitAt(s, i, alsoUnderscore) ==
    IF i > Len(s) THEN <<>>
    ELSE (IF CaseBoundary(s, i) \/ (alsoUnderscore /\ UnderscoreBoundary(s, i))
          THEN <<s[i], "_">> ELSE <<s[i]>>) \o SplitAt(s, i + 1, alsoUnderscore)

SnakeExamples ==
    /\ snake_in = MyClassifier => snake_out = my_classifier
    /\ snake_in = HTTPLoader => snake_out = http_loader
    /\ snake_in = already_snake => snake_out = already_snake

\* C8 as stated: an underscore goes in exactly at the lower-or-digit -> upper
\* and acronym -> Titlecase boundaries, then the string is lowercased; no
\* capital is left, lowercase/digit/underscore input comes back unchanged.
C8_SplitsAtCaseBoundariesOnly ==
    snake_pc # "input" =>
        /\ snake_out = lower(SplitAt(snake_in, 1, FALSE))
        /\ \A i \in DOMAIN snake_out : ~IsUpper(snake_out[i])
        /\ (\A i \in DOMAIN snake_in :
               IsLowerOrDigit(snake_in[i]) \/ snake_in[i] = "_")
              => snake_out = snake_in
        /\ SnakeExamples

\* C8 amended: as stated, and an underscore also goes in after an underscore
\* that stands directly before a capital followed by a lowercase letter.
C8_SplitsAtBoundaries ==
    snake_pc # "input" =>
        /\ snake_out = lower(SplitAt(snake_in, 1, TRUE))
        /\ \A i \in DOMAIN snake_out : ~IsUpper(snake_out[i])
        /\ (\A i \in DOMAIN snake_in :
               IsLowerOrDigit(snake_in[i]) \/ snake_in[i] = "_")
              => snake_out = snake_in
        /\ SnakeExamples

C8_Witness ==
    /\ snake_pc = "once"
    /\ snake_in = <<"_", "A", "a", "1">>
    /\ snake_out = <<"_", "_", "a", "a", "1">>

-----------------------------------------------------------------------------
(* Properties of train_model: what the sink receives *)

StageTexts == {"Loading data...", "Transforming data...",
               "Building model architecture...", "Training {model_name}..."}
LifecycleTexts ==
    <<"Loading data...", "Transforming data...",
      "Building model architecture...", "Training {model_name}...",
      "[green]Training Completed[/green]">>
TextsOf(evs) == [i \in DOMAIN evs |-> evs[i].text]
Count(ev) == Cardinality({i \in DOMAIN calls : calls[i].ev = ev})
CompletedEmitted ==
    \E i \in DOMAIN sink_log :
        sink_log[i] = StatusEv("[green]Training Completed[/green]")

\* a status notification that is neither a stage's nor the completion
IsFailedEv(e) ==
    /\ e.call = "set_status"
    /\ e.text \notin StageTexts \cup {"[green]Training Completed[/green]"}

\* C11: whenever a stage's method raises, a Failed event has been emitted to
\* the sink by the time the run ends, and Completed is never emitted.
C11_FailedEventEmitted ==
    (pc = "exit" /\ ~NoRaise) =>
        /\ \E i \in DOMAIN sink_log : IsFailedEv(sink_log[i])
        /\ ~CompletedEmitted

\* C12: the notification of a stage reaches the sink after the previous
\* stage's method has returned and before the stage's own method is called;
\* a successful run emits Loading, Transforming, Building, Fitting, Completed
\* in this order, and Completed only after fit has returned.
C12_LifecycleOrder ==
    /\ IsPrefix(TextsOf(StatusEvents), LifecycleTexts)
    /\ Count("call") <= Len(StageStatusEvents)
    /\ Len(StageStatusEvents) <= Count("return") + 1
    /\ ~NoRaise => Len(StageStatusEvents) = Count("call")
    /\ CompletedEmitted => Trace = FullTrace
    /\ (pc = "exit" /\ exit_code = 0) => TextsOf(StatusEvents) = LifecycleTexts

C12_Witness ==
    /\ pc = "exit"
    /\ exit_code = 0
    /\ TextsOf(StatusEvents) = LifecycleTexts
    /\ Len(sink_log) = 5 + MaxLogs

\* the value the method of `stage` returned
Returned(stage) ==
    LET i == CHOOSE j \in DOMAIN calls :
                 calls[j].ev = "return" /\ calls[j].stage = stage
    IN  calls[i].val

\* C13: transform is called with exactly what load_data returned and fit with
\* exactly what transform returned; what build returns is passed to nothing.
C13_DataThreading ==
    \A i \in DOMAIN calls :
        calls[i].ev = "call" =>
            CASE calls[i].stage = "load_data" -> calls[i].val = NoVal
              [] calls[i].stage = "transform" ->
                    calls[i].val = Returned("load_data")
              [] calls[i].stage = "build" -> calls[i].val = NoVal
              [] calls[i].stage = "fit" ->
                    calls[i].val = Returned("transform")

C13_Witness ==
    /\ Len(calls) >= 7
    /\ calls[7] = CallEv("call", "fit", Returned("transform"))
    /\ Returned("build") # Returned("transform")
    /\ Returned("load_data") # Returned("transform")

\* C14: what the unit logs during fit goes straight to the sink the executor
\* uses, so the sink lists it in the order logged, after the Fitting
\* notification and before the Completed notification.
C14_UnitEventsInOrder ==
    /\ [](/\ metrics_history = [i \in 1..Len(metrics_history) |-> i]
          /\ [i \in DOMAIN UpdateEvents |-> UpdateEvents[i].epoch]
                = metrics_history
          /\ \A i \in DOMAIN sink_log :
                sink_log[i].text = "[green]Training Completed[/green]"
                    => i = Len(sink_log))
    /\ [][(pc = "running" /\ cur = 4 /\ metrics_history' # metrics_history) =>
            LET m == Len(metrics_history) + 1 IN
            /\ metrics_history' = Append(metrics_history, m)
            /\ sink_log' = Append(sink_log, UpdateEv(m))
            /\ \E i \in DOMAIN sink_log :
                  sink_log[i].text = "Training {model_name}..."
            /\ ~CompletedEmitted]_vars

C14_Witness ==
    /\ pc = "exit"
    /\ exit_code = 0
    /\ Len(sink_log) = 7
    /\ sink_log[4].text = "Training {model_name}..."
    /\ sink_log[5] = UpdateEv(1)
    /\ sink_log[6] = UpdateEv(2)
    /\ metrics_history = <<1, 2>>

\* C16: the train command exits with a non-zero code exactly when locating
\* the model, constructing the unit or one of the four stages fails, and with
\* 0 when all four stages succeed.
C16_ExitCode ==
    pc = "exit" =>
        /\ exit_code # 0 <=> (LocateMiss \/ ctor_raises \/ ~NoRaise)
        /\ (NoRaise /\ Trace = FullTrace) => exit_code = 0
        /\ exit_code \in {0, 1}

C16_Witness ==
    /\ pc = "exit"
    /\ exit_code = 1
    /\ ~LocateMiss
    /\ ~ctor_raises
    /\ calls[Len(calls)] = CallEv("raise", "fit", NoVal)

-----------------------------------------------------------------------------
(* Properties of train_model: the run as a state machine *)

RunFailed == console_out.kind = "StageError"
RunState ==
    IF RunFailed THEN "Failed"
    ELSE IF CompletedEmitted THEN "Completed"
    ELSE IF cur = 0 THEN "Idle"
    ELSE <<"Loading", "Transforming", "Building", "Fitting">>[cur]

RunMoves ==
    { <<"Idle", "Loading">>, <<"Loading", "Transforming">>,
      <<"Transforming", "Building">>, <<"Building", "Fitting">>,
      <<"Fitting", "Completed">>,
      <<"Loading", "Failed">>, <<"Transforming", "Failed">>,
      <<"Building", "Failed">>, <<"Fitting", "Failed">> }

CalledStages ==
    LET cs == SelectSeq(calls, LAMBDA e : e.ev = "call")
    IN  [i \in DOMAIN cs |-> cs[i].stage]

\* C20: provided every stage call returns or raises, a run moves only along
\* Idle, Loading, Transforming, Building, Fitting, Completed, or from a stage
\* to Failed; it reaches Completed or Failed, never both; once there it calls
\* no stage method; no stage is skipped or repeated.
C20_RunTerminates ==
    /\ [](/\ ~(RunFailed /\ CompletedEmitted)
          /\ IsPrefix(CalledStages, <<"load_data", "transform", "build", "fit">>)
          /\ RunState = "Completed" => Len(CalledStages) = 4)
    /\ [][/\ RunState' # RunState => <<RunState, RunState'>> \in RunMoves
          /\ RunState \in {"Completed", "Failed"} =>
                CalledStages' = CalledStages]_vars
    /\ (dashboard ~> RunState \in {"Completed", "Failed"})

C20_Witness ==
    /\ RunState = "Failed"
    /\ pc = "exit"
    /\ cur = 3
    /\ CalledStages = <<"load_data", "transform", "build">>

-----------------------------------------------------------------------------
(* Properties of Config.get *)

\* positions of the separators in key, with the two ends
Cuts(key) == {0, Len(key) + 1} \cup {i \in DOMAIN key : key[i] = "."}
\* the segments of a dotted key: what lies between neighbouring separators
Segments(key) ==
    LET cuts == Cuts(key)
        NextCut(i) == CHOOSE j \in cuts : j > i /\ \A k \in cuts : k > i => j <= k
        RECURSIVE From(_)
        From(i) == IF i = Len(key) + 1 THEN <<>>
                   ELSE <<SubSeq(key, i + 1, NextCut(i) - 1)>> \o From(NextCut(i))
    IN  From(0)

\* the value reached from the configuration along the first n segments
RECURSIVE Reached(_, _)
Reached(segs, n) ==
    IF n = 0 THEN _config ELSE Reached(segs, n - 1).items[segs[n]]
\* every segment is a key of a mapping at its level
EverySegmentFound(segs) ==
    \A n \in 1..Len(segs) :
        /\ \A m \in 1..(n - 1) : IsDict(Reached(segs, m))
        /\ IsDict(Reached(segs, n - 1))
        /\ segs[n] \in DOMAIN Reached(segs, n - 1).items

\* C18: Config.get returns the nested value when every segment of the dotted
\* key is a key of a mapping at its level, and the default otherwise, without
\* raising; the model's configuration at ml.models.<Identifier>, read with
\* default {}, is the empty mapping when absent.
C18_GetOrDefault ==
    cfg_pc = "done" =>
        LET segs == Segments(cfg_key) IN
        /\ IF EverySegmentFound(segs)
           THEN cfg_result = Reached(segs, Len(segs))
           ELSE cfg_result = cfg_default
        /\ (/\ cfg_key = ModelConfigKey(IrisClassifier)
            /\ cfg_default = EmptyMapping
            /\ ~EverySegmentFound(<<K_ml, K_models, IrisClassifier>>))
              => cfg_result = EmptyMapping

C18_Witness ==
    /\ cfg_pc = "done"
    /\ cfg_key = ModelConfigKey(IrisClassifier)
    /\ cfg_default = EmptyMapping
    /\ K_ml \in DOMAIN _config.items
    /\ IsDict(_config.items[K_ml])
    /\ K_models \in DOMAIN _config.items[K_ml].items
    /\ ~IsDict(_config.items[K_ml].items[K_models])
    /\ cfg_result = EmptyMapping

-----------------------------------------------------------------------------
(* Properties of resolve *)

\* one of the three ways the documentation says resolve can fail
ResolveFailureCase ==
    LET parts == rsplit1(class_path) IN
    \/ Len(parts) # 2
    \/ py_env.import # "ok"
    \/ ~py_env.has_class
    \/ py_env.ctor # "ok"
    \/ RaisedInResolve(class_path, py_env) # "ok"

\* C15: resolve raises the resolution error (ImportError) when the module
\* cannot be located, when the type name is not in it and when constructing
\* the type without arguments raises anything; otherwise it returns a new
\* instance; no other error type escapes.
C15_ResolveFailsWithResolutionError ==
    resolve_pc = "done" =>
        /\ resolve_result \in {"returned", "ImportError"}
        /\ resolve_result = "ImportError" <=> ResolveFailureCase

-----------------------------------------------------------------------------
(* Properties of make_model *)

\* this step generates a unit for n while the file of its canonical key
\* holds the class of another identifier
SecondOfCollidingPair(n) ==
    /\ make_report'.name = n
    /\ models_dir
    /\ to_snake_case(n) \in DOMAIN model_files
    /\ model_files[to_snake_case(n)] # n

\* C17 as stated: generating a unit for the second of two identifiers with
\* one canonical key is not an error, and the shared file then holds the
\* second identifier's class.
C17_LastWriteWins ==
    [][\A n \in MakeNames :
          SecondOfCollidingPair(n) =>
              /\ make_report'.kind = "created"
              /\ make_report'.exit = 0
              /\ model_files'[to_snake_case(n)] = n]_vars

\* C17 amended: generating a unit for the second identifier is refused with
\* exit code 1 because the file exists, and the file keeps the first
\* identifier's class.
C17_FirstWriteWins ==
    [][\A n \in MakeNames :
          SecondOfCollidingPair(n) =>
              /\ make_report'.kind = "exists"
              /\ make_report'.exit = 1
              /\ model_files' = model_files]_vars

C17_Witness ==
    /\ to_snake_case(HTTPLoader) = to_snake_case(HttpLoader)
    /\ make_report = MakeReport(HttpLoader, "exists", 1)
    /\ model_files[http_loader] = HTTPLoader

-----------------------------------------------------------------------------
(* Properties of main *)

\* the value of `loader` in config/data.yaml, None when there is none
LoaderSetting ==
    IF /\ K_data \in DOMAIN config_files
       /\ config_files[K_data].tag = "dict"
       /\ K_loader \in DOMAIN config_files[K_data].items
    THEN config_files[K_data].items[K_loader]
    ELSE None

\* the setting names a class that can be imported and constructed
LoaderResolvable ==
    /\ LoaderSetting.tag = "str"
    /\ LET segs == Segments(LoaderSetting.v) IN
       /\ Len(segs) >= 2
       /\ \A i \in DOMAIN segs : segs[i] # <<>>
    /\ py_env = Env("ok", TRUE, "ok")

\* C19: after bootstrap "data_loader" is bound exactly when the subcommand is
\* not "new", config/ exists and data.loader is truthy; bootstrap calls no
\* resolver and fails on nothing; every later make("data_loader") calls
\* resolve once more, so an unresolvable path fails at make time only.
C19_LoaderBoundLazily ==
    /\ [](boot_pc = "booted" =>
            ("data_loader" \in DOMAIN _bindings
                <=> (/\ subcommand # "new"
                     /\ config_dir
                     /\ Truthy(LoaderSetting))))
    /\ [][(boot_pc = "start" /\ boot_pc' = "booted") =>
            /\ invocations' = invocations
            /\ lastOp'.kind \in {"none", "returned"}
            /\ _instances' = _instances]_vars
    /\ [][(boot_pc = "booted" /\ "data_loader" \in DOMAIN _bindings) =>
            /\ invocations' = [invocations EXCEPT ![LoaderLambda] = @ + 1]
            /\ lastOp'.op = "make"
            /\ lastOp'.kind = "returned" <=> LoaderResolvable
            /\ _bindings' = _bindings]_vars

C19_Witness ==
    /\ boot_pc = "booted"
    /\ "data_loader" \in DOMAIN _bindings
    /\ ~LoaderResolvable
    /\ lastOp.op = "make"
    /\ lastOp.kind = "ImportError"
    /\ invocations[LoaderLambda] = 2

-----------------------------------------------------------------------------
(* Properties of train_model: a constructor that raises *)

\* the class was found and its constructor raises
CtorFails == ~LocateMiss /\ ctor_raises

\* C21: when constructing the unit raises, the command ends at once with a
\* non-zero exit code and the instantiation report; the dashboard is never
\* created, no status is notified, no tracker is attached and no stage method
\* is called.
C21_CtorFailureStopsBeforeSink ==
    /\ [](CtorFails =>
            /\ dashboard = FALSE
            /\ sink_log = <<>>
            /\ metrics_history = <<>>
            /\ tracker = "None"
            /\ calls = <<>>
            /\ pc \in {"start", "located", "exit"}
            /\ pc = "exit" => /\ exit_code = 1
                              /\ console_out.kind = "InstantiateError")
    /\ [][(CtorFails /\ pc = "located") => pc' = "exit"]_vars

C21_Witness ==
    /\ CtorFails
    /\ has_set_tracker
    /\ pc = "exit"
    /\ exit_code = 1
    /\ console_out.kind = "InstantiateError"
    /\ tracker = "None"
    /\ dashboard = FALSE

=============================================================================
